---- MODULE Spec2Model ----
(***************************************************************************)
(* archlog: a ChangeLog generator for "svn log".  The model covers main,   *)
(* outputLog (the changelog assembler) and nickToNameAndEmail (the         *)
(* identity resolver with its page scans), latest revision of the program. *)
(* Spec is the program run from main; PureSpec calls one function on its   *)
(* own (message formatting, the email fixes, generateNick, the scan of a   *)
(* people page, the scan of the list box) on an argument drawn from a      *)
(* bounded set.                                                            *)
(*                                                                         *)
(* A Go string is a sequence of one-character strings.  Positions are      *)
(* 1-based here; Go's slice index k is written k + 1.                      *)
(***************************************************************************)
EXTENDS Integers, Sequences, FiniteSets, TLC

\* ------------------------------------------------------------------- state
VARIABLES
  pc,          \* where the process is: main, outputLog, the loop, a source of
               \* nickToNameAndEmail (TU, DEV, PKG, FEL), its return, exit
  exitStatus,  \* -1 while running; 0, 1 (os.Exit(1)), 2 (panic)
  stdout,      \* the bytes written to standard output
  stderr,      \* the lines written to standard error
  n,           \* outputLog's argument, 0 before the call
  cmdline,     \* history: the flags and arguments main was started with
  svnlog,      \* svnlog.LogEntry
  idx,         \* position of the range loop in svnlog
  first, msgitems, prevdate, prevname, prevheader,   \* outputLog's locals
  nickCache,   \* the package-level map; nil and empty read alike
  nick,        \* nickToNameAndEmail's argument
  result,      \* nickToNameAndEmail's return value
  svnFailed,   \* history: the svn command failed
  callLog,     \* history: the fetches of the current nickToNameAndEmail call
  netErr,      \* history: the latest of them got no response
  pkgListed,   \* history: the latest fetch by nick was of the package page,
               \* and the page has an option for the nick
  callNo,      \* history: calls of nickToNameAndEmail so far, per handle
  firstResult, \* history: what the first call returned, per handle
  ioCalls,     \* history: calls that fetched anything, per handle
  fnCall,      \* a function called on its own, with its argument
  fnRet        \* what that call returned

vars ==
  <<pc, exitStatus, stdout, stderr, n, cmdline, svnlog, idx, first, msgitems, prevdate,
    prevname, prevheader, nickCache, nick, result, svnFailed, callLog, netErr,
    pkgListed,
    callNo, firstResult, ioCalls, fnCall, fnRet>>

outputLogLocals == <<first, msgitems, prevdate, prevname, prevheader>>
resolverVars ==
  <<nickCache, nick, result, callLog, netErr, pkgListed, callNo, firstResult,
    ioCalls>>
pureVars == <<fnCall, fnRet>>

\* ------------------------------------------------------------------ bounds
\* Longest history "svn log" returns.
MaxEntries == 3

\* ------------------------------------------------------- package "strings"
\* sub occurs in s at position i.
MatchAt(s, sub, i) ==
  /\ i + Len(sub) - 1 <= Len(s)
  /\ \A k \in 1..Len(sub) : s[i + k - 1] = sub[k]

RECURSIVE IndexFrom(_, _, _)
\* The first position of sub in s at or after i, 0 when there is none.
IndexFrom(s, sub, i) ==
  IF i + Len(sub) - 1 > Len(s) THEN 0
  ELSE IF MatchAt(s, sub, i) THEN i
  ELSE IndexFrom(s, sub, i + 1)

\* strings.Index: the first position of sub in s, 0 when absent (Go: -1).
Index(s, sub) == IndexFrom(s, sub, 1)

RECURSIVE LastIndexFrom(_, _, _)
LastIndexFrom(s, sub, i) ==
  IF i < 1 THEN 0
  ELSE IF MatchAt(s, sub, i) THEN i
  ELSE LastIndexFrom(s, sub, i - 1)

\* strings.LastIndex: the last position of sub in s, 0 when absent.
LastIndex(s, sub) == LastIndexFrom(s, sub, Len(s) - Len(sub) + 1)

\* strings.Contains.
Contains(s, sub) == Index(s, sub) # 0

RECURSIVE Count(_, _)
\* strings.Count: the number of non-overlapping occurrences of sub (non-empty).
Count(s, sub) ==
  LET i == Index(s, sub)
  IN  IF i = 0 THEN 0
      ELSE 1 + Count(SubSeq(s, i + Len(sub), Len(s)), sub)

RECURSIVE Replace(_, _, _, _)
\* strings.Replace(s, old, new, n): the first n occurrences, all when n < 0.
Replace(s, old, new, cnt) ==
  LET i == Index(s, old)
  IN  IF cnt = 0 \/ i = 0 THEN s
      ELSE SubSeq(s, 1, i - 1) \o new
           \o Replace(SubSeq(s, i + Len(old), Len(s)), old, new, cnt - 1)

RECURSIVE Split(_, _)
\* strings.Split(s, sep): every piece between occurrences of sep (non-empty).
Split(s, sep) ==
  LET i == Index(s, sep)
  IN  IF i = 0 THEN <<s>>
      ELSE <<SubSeq(s, 1, i - 1)>> \o Split(SubSeq(s, i + Len(sep), Len(s)), sep)

\* unicode.IsSpace on the characters the model uses.
IsSpace(c) == c \in {" ", "\n", "\t", "\r"}

RECURSIVE TrimLeft(_)
TrimLeft(s) == IF s # <<>> /\ IsSpace(Head(s)) THEN TrimLeft(Tail(s)) ELSE s

RECURSIVE TrimRight(_)
TrimRight(s) ==
  IF s # <<>> /\ IsSpace(s[Len(s)]) THEN TrimRight(SubSeq(s, 1, Len(s) - 1)) ELSE s

\* strings.TrimSpace.
TrimSpace(s) == TrimRight(TrimLeft(s))

Upper == <<"A","B","C","D","E","F","G","H","I","J","K","L","M","N","O","P","Q","R","S","T","U","V","W","X","Y","Z">>
Lower == <<"a","b","c","d","e","f","g","h","i","j","k","l","m","n","o","p","q","r","s","t","u","v","w","x","y","z">>

\* strings.ToLower on ASCII.
ToLower(s) ==
  [i \in 1..Len(s) |->
     IF \E k \in 1..26 : Upper[k] = s[i]
     THEN Lower[CHOOSE k \in 1..26 : Upper[k] = s[i]]
     ELSE s[i]]

RECURSIVE Join(_, _)
\* strings.Join.
Join(parts, sep) ==
  IF parts = <<>> THEN <<>>
  ELSE IF Len(parts) = 1 THEN parts[1]
  ELSE parts[1] \o sep \o Join(Tail(parts), sep)

\* fmt.Sprintf("%s <%s>", name, email)
NameEmail(name, email) == name \o <<" ","<">> \o email \o <<">">>

\* -------------------------------------------------------------- constants
TU_URL == "http://www.archlinux.org/trustedusers/"
DEV_URL == "http://www.archlinux.org/developers/"
FEL_URL == "http://www.archlinux.org/fellows/"
PKG_URL == "http://www.archlinux.org/packages/"
VERSION == <<"0",".","5">>

\* What a scan returns: a value with a nil error, an error, or a run-time
\* panic that nothing recovers.
Ok(v) == [kind |-> "ok", val |-> v]
Err(e) == [kind |-> "err", val |-> e]
Panic(why) == [kind |-> "panic", val |-> why]

\* client.Get(url) failed: no document.
NetFail == [fetched |-> FALSE]
\* client.Get(url) returned a response with this body.
Page(body) == [fetched |-> TRUE, body |-> body]

\* ------------------------------------------------ nickToNameAndEmailWithUrl
\* "Examine the next 30 tags"
Window == 30

PersonMarker == <<"s","c","h","e","m","a",".","o","r","g","/","P","e","r","s","o","n">>
NameMarker == <<"i","t","e","m","p","r","o","p","=","\"","n","a","m","e">>
ArchLinuxMarker == <<"A","r","c","h"," ","L","i","n","u","x">>
EmailMarker == <<"E","m","a","i","l">>

\* "If there's no "@" in the email, replace the first "." with "@""
FixEmailPrimary(email) ==
  IF ~Contains(email, <<"@">>) /\ Contains(email, <<".">>)
  THEN Replace(email, <<".">>, <<"@">>, 1)
  ELSE email

\* The return after the loop over the tags.
ScanReturn(st) ==
  IF st.found THEN Ok(NameEmail(st.name, st.email))
  ELSE Err("Could not find nick")

\* counter--
Dec(st) == [st EXCEPT !.counter = @ - 1]

RECURSIVE ScanTags(_, _, _, _)
\* The loop over strings.Split(body, "<"); i is Go's index, st the locals
\* name, email, counter, email_index, found.
ScanTags(tags, handle, i, st) ==
  IF i >= Len(tags) THEN ScanReturn(st)
  ELSE
    LET tag == tags[i + 1]
        s1 == IF Contains(tag, PersonMarker)
              THEN [st EXCEPT !.name = <<>>, !.email = <<>>, !.counter = Window]
              ELSE st
    IN  IF s1.counter > 0 THEN
          IF Contains(tag, NameMarker) /\ ~Contains(tag, ArchLinuxMarker) THEN
            LET parts == Split(tag, <<"\"">>)
            IN  IF Len(parts) < 4 THEN Panic("index out of range")
                ELSE ScanTags(tags, handle, i + 1, Dec([s1 EXCEPT !.name = parts[4]]))
          ELSE IF Contains(tag, handle) THEN
            ScanTags(tags, handle, i + 1, Dec([s1 EXCEPT !.found = TRUE]))
          ELSE IF Contains(tag, EmailMarker) THEN
            ScanTags(tags, handle, i + 1, Dec([s1 EXCEPT !.email_index = i + 2]))
          ELSE IF i = s1.email_index THEN
            LET parts == Split(tag, <<">">>)
            IN  IF Len(parts) < 2 THEN Panic("index out of range")
                ELSE LET s2 == [s1 EXCEPT !.email = FixEmailPrimary(parts[2])]
                     IN  IF s2.found THEN ScanReturn(s2)
                         ELSE ScanTags(tags, handle, i + 1, Dec(s2))
          ELSE ScanTags(tags, handle, i + 1, Dec(s1))
        ELSE ScanTags(tags, handle, i + 1, s1)

\* Find the name and email of a handle on a page of people.
nickToNameAndEmailWithUrl(handle, page) ==
  IF ~page.fetched THEN Err("client.Get")
  ELSE ScanTags(Split(page.body, <<"<">>), handle, 0,
                [name |-> <<>>, email |-> <<>>, counter |-> 0,
                 email_index |-> -1, found |-> FALSE])

\* ---------------------------------------------------- package "text/scanner"
\* A *scanner.Scanner over the response body: the characters, how many have
\* been read, and tokPos, the start of the token text being collected (-1:
\* none).  getWebPageTokenizer returns nil, nil when the fetch failed.
NilTokenizer == [nil |-> TRUE]

getWebPageTokenizer(page) ==
  IF ~page.fetched THEN NilTokenizer
  ELSE [nil |-> FALSE, src |-> page.body, pos |-> 0, tokPos |-> -1]

\* Scanner.Next: reads one character and stops collecting token text.
ScannerNext(t) ==
  IF t.pos >= Len(t.src) THEN [eof |-> TRUE, t |-> [t EXCEPT !.tokPos = -1]]
  ELSE [eof |-> FALSE, t |-> [t EXCEPT !.tokPos = -1, !.pos = @ + 1]]

\* Scanner.TokenText: the text of the token Scan collected, "" when none is.
TokenText(t) ==
  IF t.tokPos < 0 THEN <<>> ELSE SubSeq(t.src, t.tokPos + 1, t.pos)

RECURSIVE Skip(_, _)
\* "Skip N tokens, if possible. Returns true if it worked out."
Skip(t, k) ==
  IF k <= 0 THEN [ok |-> TRUE, t |-> t]
  ELSE LET r == ScannerNext(t)
       IN  IF r.eof THEN [ok |-> FALSE, t |-> r.t] ELSE Skip(r.t, k - 1)

tokerror == "Out of tokens"

RECURSIVE ListBoxLoop(_, _)
\* The for loop of nickToNameFromListBox.
ListBoxLoop(t, handle) ==
  LET r == Skip(t, 1)
  IN  IF ~r.ok THEN Err(tokerror)
      ELSE IF TokenText(r.t) = <<"o","p","t","i","o","n">> THEN
        IF handle # TokenText(r.t) THEN ListBoxLoop(r.t, handle)
        ELSE LET r2 == Skip(r.t, 1)
             IN  IF ~r2.ok THEN Err(tokerror) ELSE Ok(TokenText(r2.t))
      ELSE ListBoxLoop(r.t, handle)

\* Find the name from a list box of people and nicks.  "defer body.Close()"
\* on the nil body of a failed fetch is a nil dereference.
nickToNameFromListBox(handle, page) ==
  LET t == getWebPageTokenizer(page)
  IN  IF t.nil THEN Panic("nil pointer dereference")
      ELSE ListBoxLoop(t, handle)

RECURSIVE SeekLabel(_, _)
\* for text != label { Skip 1; text = TokenText() }
SeekLabel(t, label) ==
  LET r == Skip(t, 1)
  IN  IF ~r.ok THEN r
      ELSE IF TokenText(r.t) = label THEN r
      ELSE SeekLabel(r.t, label)

\* "If there's no "@" in the email, replace the first "." with "@"", label scan.
FixEmailByName(email) ==
  IF Index(email, <<"@">>) = 0 /\ Count(email, <<".">>) > 1
  THEN Replace(email, <<".">>, <<"@">>, 1)
  ELSE email

RECURSIVE ByNameLoop(_, _)
\* The for loop of nameToEmailWithUrl.
ByNameLoop(t, fullname) ==
  LET r == Skip(t, 1)
  IN  IF ~r.ok THEN Err(tokerror)
      ELSE IF TokenText(r.t) # <<"a">> THEN ByNameLoop(r.t, fullname)
      ELSE
        LET n1 == SeekLabel(r.t, <<"N","a","m","e",":">>)
            n2 == Skip(n1.t, 4)
            a1 == SeekLabel(n2.t, <<"A","l","i","a","s",":">>)
            a2 == Skip(a1.t, 4)
            e1 == SeekLabel(a2.t, <<"E","m","a","i","l",":">>)
            e2 == Skip(e1.t, 4)
        IN  IF ~n1.ok \/ ~n2.ok THEN Err(tokerror)
            ELSE IF ToLower(TokenText(n2.t)) # ToLower(fullname)
                 THEN ByNameLoop(n2.t, fullname)
            ELSE IF ~a1.ok \/ ~a2.ok \/ ~e1.ok \/ ~e2.ok THEN Err(tokerror)
            ELSE Ok(FixEmailByName(TokenText(e2.t)))

\* Find the email of a full name on a page of people.
nameToEmailWithUrl(fullname, page) ==
  LET t == getWebPageTokenizer(page)
  IN  IF t.nil THEN Panic("nil pointer dereference")
      ELSE ByNameLoop(t, fullname)

\* --------------------------------------------------------------- the world
\* Author handles in the history.
Handles == {<<"a","l">>, <<"b","o">>}

\* Documents the three people pages (trusted users, developers, fellows) may
\* hold: nobody listed; one person with name, alias al and email; a block
\* with aliases only; a name tag without a content attribute; a document cut
\* off inside the tag that follows the email label.
DocNobody == <<"<","h","t","m","l",">">>
DocPerson ==
  <<"<","d","i","v"," ","i","t","e","m","t","y","p","e","=","\"","s","c","h","e","m","a",".","o","r","g","/","P","e","r","s","o","n","\"",">","<","m","e","t","a"," ","i","t","e","m","p","r","o","p","=","\"","n","a","m","e","\""," ","c","o","n","t","e","n","t","=","\"","A","l","\"",">","<","t","d",">","a","l","<","t","h",">","E","m","a","i","l",":","<","/","t","h",">","<","t","d",">","a","@","x">>
DocAliases == <<"<","d","i","v"," ","i","t","e","m","t","y","p","e","=","\"","s","c","h","e","m","a",".","o","r","g","/","P","e","r","s","o","n","\"",">","<","t","d",">","a","l","<","t","d",">","b","o">>
DocShortName == <<"<","d","i","v"," ","i","t","e","m","t","y","p","e","=","\"","s","c","h","e","m","a",".","o","r","g","/","P","e","r","s","o","n","\"",">","<","h","3"," ","i","t","e","m","p","r","o","p","=","\"","n","a","m","e","\"",">">>
DocTruncated == <<"<","d","i","v"," ","i","t","e","m","t","y","p","e","=","\"","s","c","h","e","m","a",".","o","r","g","/","P","e","r","s","o","n","\"",">","<","t","h",">","E","m","a","i","l",":","<","/","t","h",">","<","t","d">>

PeoplePages ==
  {Page(DocNobody), Page(DocPerson), Page(DocAliases), Page(DocShortName),
   Page(DocTruncated), NetFail}

\* Documents the package search page may hold: a list box, or nothing.
DocListBox == <<"<","o","p","t","i","o","n"," ","v","a","l","u","e","=","\"","a","l","\"",">","A","l","<","/","o","p","t","i","o","n",">">>
PackagePages == {Page(DocListBox), Page(<<>>), NetFail}

\* The page has an option of the list box whose value is the handle.
OptionFor(handle) == <<"<","o","p","t","i","o","n"," ","v","a","l","u","e","=","\"">> \o handle \o <<"\"",">">>
Lists(page, handle) == page.fetched /\ Contains(page.body, OptionFor(handle))

\* svn log entries (LogEntry: author, date, msg).
Timestamps == {<<"1","7","T","9">>, <<"0","6","T","9">>}
Messages == {<<>>, <<"a">>, <<" ","b">>}
LogEntry == [Author : Handles, Date : Timestamps, Msg : Messages]

\* What "svn log --xml" may print: up to limit entries.
Histories(limit) == UNION {[1..k -> LogEntry] : k \in 0..limit}

\* Command lines.
Args == {<<>>, <<<<"2">>>>, <<<<"0">>>>, <<<<"x">>>>, <<<<"-","1">>>>}

\* The command line before main has run.
NoCmdline == [help |-> FALSE, version |-> FALSE, args |-> <<>>]


EmptyMap == [k \in {} |-> k]

\* Before main runs: nothing read, nothing written, nothing cached.
Idle ==
  /\ exitStatus = -1
  /\ stdout = <<>>
  /\ stderr = <<>>
  /\ n = 0
  /\ cmdline = NoCmdline
  /\ svnlog = <<>>
  /\ idx = 1
  /\ first = TRUE
  /\ msgitems = <<>>
  /\ prevdate = <<>>
  /\ prevname = <<>>
  /\ prevheader = <<>>
  /\ nickCache = EmptyMap
  /\ nick = <<>>
  /\ result = <<>>
  /\ svnFailed = FALSE
  /\ callLog = <<>>
  /\ netErr = FALSE
  /\ pkgListed = FALSE
  /\ callNo = [h \in Handles |-> 0]
  /\ firstResult = EmptyMap
  /\ ioCalls = [h \in Handles |-> 0]

\* No function is called on its own.
NoCall == [fn |-> "none", arg |-> <<>>, doc |-> <<>>]
NoRet == [kind |-> "none", val |-> <<>>]

Init ==
  /\ pc = "main"
  /\ Idle
  /\ fnCall = NoCall
  /\ fnRet = NoRet

\* -------------------------------------------------------------------- main
\* fmt.Println(out, s)
Println(out, s) == out \o s \o <<"\n">>

UsageText ==
  <<"\n","G","e","n","e","r","a","t","e","s"," ","a"," ","C","h","a","n","g","e","L","o","g"," ","b","a","s","e","d"," ","o","n"," ","\"","s","v","n"," ","l","o","g","\"",".","\n","T","r","i","e","s"," ","t","o"," ","f","i","n","d"," ","n","a","m","e","s"," ","a","n","d"," ","e","-","m","a","i","l"," ","a","d","d","r","e","s","s","e","s"," ","f","o","r"," ","A","r","c","h"," ","L","i","n","u","x"," ","r","e","l","a","t","e","d"," ","u","s","e","r","n","a","m","e","s","\n","\n","S","y","n","t","a","x",":","\n","\t","a","r","c","h","l","o","g"," ","[","n","]","\n","\n","A","r","g","u","m","e","n","t","s",":","\n","\t","n"," ","-"," ","t","h","e"," ","n","u","m","b","e","r"," ","o","f"," ","e","n","t","r","i","e","s"," ","t","o"," ","f","e","t","c","h"," ","f","r","o","m"," ","t","h","e"," ","l","o","g","\n","\n","E","x","a","m","p","l","e","s",":","\n","\t","a","r","c","h","l","o","g","\n","\t","a","r","c","h","l","o","g"," ","1","0","\n","\n">>

Digits == <<"0","1","2","3","4","5","6","7","8","9">>

RECURSIVE DecimalValue(_)
DecimalValue(s) ==
  IF s = <<>> THEN 0
  ELSE 10 * DecimalValue(SubSeq(s, 1, Len(s) - 1))
       + (CHOOSE d \in 0..9 : Digits[d + 1] = s[Len(s)])

\* Mutant: the sign is dropped.
Atoi_signDropped(s) ==
  LET signed == s # <<>> /\ s[1] \in {"+", "-"}
      digits == IF signed THEN Tail(s) ELSE s
  IN  IF digits # <<>> /\ \A i \in 1..Len(digits) : \E d \in 1..10 : Digits[d] = digits[i]
      THEN [err |-> FALSE, val |-> DecimalValue(digits)]
      ELSE [err |-> TRUE, val |-> 0]

\* strconv.Atoi: an optional sign, then decimal digits.
Atoi(s) ==
  LET signed == s # <<>> /\ s[1] \in {"+", "-"}
      digits == IF signed THEN Tail(s) ELSE s
  IN  IF digits # <<>> /\ \A i \in 1..Len(digits) : \E d \in 1..10 : Digits[d] = digits[i]
      THEN [err |-> FALSE,
            val |-> IF signed /\ s[1] = "-" THEN 0 - DecimalValue(digits)
                    ELSE DecimalValue(digits)]
      ELSE [err |-> TRUE, val |-> 0]

\* main: flags, then the optional count.
Main ==
  /\ pc = "main"
  /\ \E help \in BOOLEAN, version \in BOOLEAN, args \in Args :
       /\ cmdline' = [help |-> help, version |-> version, args |-> args]
       /\ IF help THEN
            /\ stdout' = stdout \o UsageText
            /\ pc' = "exit" /\ exitStatus' = 0
            /\ UNCHANGED <<stderr, n>>
          ELSE IF version THEN
            /\ stdout' = Println(stdout, VERSION)
            /\ pc' = "exit" /\ exitStatus' = 0
            /\ UNCHANGED <<stderr, n>>
          ELSE IF Len(args) = 1 THEN
            LET a == Atoi(args[1])
            IN  IF a.err \/ a.val <= 0 THEN
                  /\ stderr' = Append(stderr, "Please provide an int that represents the number of svn log entries to recall.")
                  /\ pc' = "exit" /\ exitStatus' = 1
                  /\ UNCHANGED <<stdout, n>>
                ELSE
                  /\ n' = a.val
                  /\ pc' = "outputLog"
                  /\ UNCHANGED <<stdout, stderr, exitStatus>>
          ELSE
            /\ n' = -1
            /\ pc' = "outputLog"
            /\ UNCHANGED <<stdout, stderr, exitStatus>>
  /\ UNCHANGED <<svnlog, idx, svnFailed>>
  /\ UNCHANGED outputLogLocals
  /\ UNCHANGED resolverVars
  /\ UNCHANGED pureVars

\* --------------------------------------------------------------- getSvnLog
\* What cmd.Output() gives: the error of a failed command, or the XML of
\* the entries.
CmdFailed == [err |-> TRUE]
CmdOutput(entries) == [err |-> FALSE, out |-> [log |-> entries]]

\* getSvnLogXMLbytes: "return []byte{}, err" on failure.
getSvnLogXMLbytes(cmd) ==
  IF cmd.err THEN [bytes |-> <<>>, err |-> TRUE]
  ELSE [bytes |-> cmd.out, err |-> FALSE]

\* xml.Unmarshal: no bytes is an unexpected EOF.
Unmarshal(bytes) ==
  IF bytes = <<>> THEN [err |-> <<"E","O","F">>, log |-> <<>>]
  ELSE [err |-> <<>>, log |-> bytes.log]

\* getSvnLog: the error of getSvnLogXMLbytes is overwritten by Unmarshal's,
\* which is printed on standard output and not returned.
getSvnLog(cmd) ==
  LET x == getSvnLogXMLbytes(cmd)
      u == Unmarshal(x.bytes)
  IN  IF u.err # <<>>
      THEN [log |-> <<>>, err |-> FALSE, printed |-> <<"e","r","r","o","r",":"," ">> \o u.err]
      ELSE [log |-> u.log, err |-> FALSE, printed |-> <<>>]

\* prettyDate
prettyDate(date) == Split(date, <<"T">>)[1]

\* ------------------------------------------------------ nickToNameAndEmail
\* Mutant: the cache is never consulted.
Lookup_never(cache, key) == FALSE

\* "for key, value := range nickCache { if key == nick { return value } }"
Lookup(cache, key) == key \in DOMAIN cache

\* Mutant: a handle that resolves to itself is not cached.
Store_foundOnly(cache, key, value) ==
  IF value = key THEN cache
  ELSE [k \in DOMAIN cache \cup {key} |-> IF k = key THEN value ELSE cache[k]]

\* nickCache[nick] = value
Store(cache, key, value) ==
  [k \in DOMAIN cache \cup {key} |-> IF k = key THEN value ELSE cache[k]]

\* Mutant: the developer page is left out.
NextSource_skipDev(src) ==
  CASE src = "TU" -> "PKG"
    [] src = "DEV" -> "PKG"
    [] src = "PKG" -> "FEL"
    [] src = "FEL" -> "fallback"

\* The source tried after a source that did not find the nick; after the
\* fellows page the nick itself is the answer.
NextSource(src) ==
  CASE src = "TU" -> "DEV"
    [] src = "DEV" -> "PKG"
    [] src = "PKG" -> "FEL"
    [] src = "FEL" -> "fallback"

\* Mutant: an empty name when nothing was found.
Fallback_empty(h) == <<>>

\* "Could not get name and email from nick": the value returned and cached.
Fallback(h) == h

\* One fetch, as the history records it.
Fetch(src, by, kind) == [src |-> src, by |-> by, res |-> kind]

\* return v from nickToNameAndEmail(h)
Returns(h, v) ==
  /\ result' = v
  /\ pc' = "ret"
  /\ firstResult' = IF h \in DOMAIN firstResult THEN firstResult
                    ELSE [k \in DOMAIN firstResult \cup {h} |->
                            IF k = h THEN v ELSE firstResult[k]]

\* An unrecovered run-time panic ends the process with status 2.
Crash(lines, why) ==
  /\ pc' = "exit"
  /\ exitStatus' = 2
  /\ stderr' = stderr \o lines \o <<"panic: runtime error: " \o why>>
  /\ UNCHANGED <<nickCache, result, firstResult>>

\* The first fetch of a call makes it a call with remote I/O.
CountIO == IF callLog = <<>> THEN [ioCalls EXCEPT ![nick] = @ + 1] ELSE ioCalls

\* The source did not find the nick: on to the next one, or give up.
Miss(src) ==
  IF NextSource(src) = "fallback" THEN
    /\ nickCache' = Store(nickCache, nick, Fallback(nick))
    /\ Returns(nick, Fallback(nick))
    /\ UNCHANGED <<stderr, exitStatus>>
  ELSE
    /\ pc' = NextSource(src)
    /\ UNCHANGED <<nickCache, result, firstResult, stderr, exitStatus>>

\* The source found the nick: cache and return.
Hit(v) ==
  /\ nickCache' = Store(nickCache, nick, v)
  /\ Returns(nick, v)
  /\ UNCHANGED <<stderr, exitStatus>>

\* The scans of every page for every handle, evaluated once.
PeopleScans ==
  [h \in Handles |-> [p \in PeoplePages |-> nickToNameAndEmailWithUrl(h, p)]]
ListBoxScans ==
  [h \in Handles |-> [p \in PackagePages |-> nickToNameFromListBox(h, p)]]

\* nickToNameAndEmailWithUrl(nick, url) and the "if err == nil" after it.
Primary(src) ==
  /\ pc = src
  /\ \E page \in PeoplePages :
       LET r == PeopleScans[nick][page]
       IN  /\ callLog' = Append(callLog, Fetch(src, "nick", r.kind))
           /\ netErr' = ~page.fetched
           /\ pkgListed' = FALSE
           /\ ioCalls' = CountIO
           /\ CASE r.kind = "ok" -> Hit(r.val)
                [] r.kind = "err" -> Miss(src)
                [] r.kind = "panic" -> Crash(<<>>, r.val)
  /\ UNCHANGED <<stdout, n, cmdline, svnlog, idx, svnFailed, nick, callNo>>
  /\ UNCHANGED outputLogLocals
  /\ UNCHANGED pureVars

\* "Try searching on the trusted user webpage"
TryTU == Primary("TU")

\* "Try searching on the developer webpage"
TryDEV == Primary("DEV")

\* "Try searching on the fellows webpage", then the nick itself.
TryFEL == Primary("FEL")

\* "Found it, try to find the mail too": the email by full name on the
\* trusted user page, then on the developer page.
ByName(name, pa, pb) ==
  LET e1 == nameToEmailWithUrl(name, pa)
      e2 == nameToEmailWithUrl(name, pb)
      l1 == Fetch("TU", "name", e1.kind)
      l2 == Fetch("DEV", "name", e2.kind)
      retrieve(p, url) == IF p.fetched THEN <<>> ELSE <<"Could not retrieve " \o url>>
  IN  IF e1.kind = "panic"
        THEN [kind |-> "panic", val |-> e1.val, log |-> <<l1>>,
              lines |-> retrieve(pa, TU_URL), netErr |-> ~pa.fetched]
      ELSE IF e1.kind = "ok"
        THEN [kind |-> "ok", val |-> NameEmail(name, e1.val), log |-> <<l1>>,
              netErr |-> FALSE]
      ELSE IF e2.kind = "panic"
        THEN [kind |-> "panic", val |-> e2.val, log |-> <<l1, l2>>,
              lines |-> retrieve(pb, DEV_URL), netErr |-> ~pb.fetched]
      ELSE IF e2.kind = "ok"
        THEN [kind |-> "ok", val |-> NameEmail(name, e2.val), log |-> <<l1, l2>>,
              netErr |-> FALSE]
      ELSE [kind |-> "ok", val |-> name, log |-> <<l1, l2>>, netErr |-> ~pb.fetched]

\* "Try searching the package search webpage"
TryPKG ==
  /\ pc = "PKG"
  /\ \E page \in PackagePages :
       LET r == ListBoxScans[nick][page]
           l == Fetch("PKG", "nick", r.kind)
       IN  /\ ioCalls' = CountIO
           /\ pkgListed' = Lists(page, nick)
           /\ CASE r.kind = "ok" ->
                     \E pa \in PeoplePages, pb \in PeoplePages :
                       LET b == ByName(r.val, pa, pb)
                       IN  /\ callLog' = Append(callLog, l) \o b.log
                           /\ netErr' = b.netErr
                           /\ IF b.kind = "panic" THEN Crash(b.lines, b.val)
                              ELSE Hit(b.val)
                [] r.kind = "err" ->
                     /\ callLog' = Append(callLog, l)
                     /\ netErr' = ~page.fetched
                     /\ Miss("PKG")
                [] r.kind = "panic" ->
                     /\ callLog' = Append(callLog, l)
                     /\ netErr' = ~page.fetched
                     /\ Crash(<<"Could not retrieve " \o PKG_URL>>, r.val)
  /\ UNCHANGED <<stdout, n, cmdline, svnlog, idx, svnFailed, nick, callNo>>
  /\ UNCHANGED outputLogLocals
  /\ UNCHANGED pureVars

\* --------------------------------------------------------------- outputLog
leadStar == <<" "," "," "," ","*"," ">>
contIndent == <<"\n"," "," "," "," "," "," ">>

\* "Skip empty messages"
SkipEntry(msg) == msg = <<>>

\* Mutant: only the first newline is indented.
FormatMsg_firstNewlineOnly(msg) ==
  LET m1 == leadStar \o msg
      m2 == IF Count(m1, <<"\n","\n">>) = 1 THEN Replace(m1, <<"\n","\n">>, <<"\n">>, 1) ELSE m1
  IN  Replace(m2, <<"\n">>, contIndent, 1)

\* "Where there is one blank line, remove it", then "If there are newlines
\* in the msg, indent them".
FormatMsg(msg) ==
  LET m1 == leadStar \o msg
      m2 == IF Count(m1, <<"\n","\n">>) = 1 THEN Replace(m1, <<"\n","\n">>, <<"\n">>, 1) ELSE m1
  IN  Replace(m2, <<"\n">>, contIndent, -1)

RECURSIVE PrintReversed_forward(_, _)
\* Mutant: the gathered messages are printed in the order gathered.
PrintReversed_forward(out, items) ==
  IF items = <<>> THEN out
  ELSE PrintReversed_forward(Println(out, Head(items)), Tail(items))

RECURSIVE PrintReversed(_, _)
\* "Output in reverse order": for i := range msgitems, Println(msgitems[last-i]).
PrintReversed(out, items) ==
  IF items = <<>> THEN out
  ELSE PrintReversed(Println(out, items[Len(items)]), SubSeq(items, 1, Len(items) - 1))

\* The header line of an entry.
Header(date, name) == date \o <<" ">> \o name

\* Mutant: a header after the first is printed without the blank line.
PrintHeader_noBlankLine(L, header) ==
  IF header # L.prevheader THEN [L EXCEPT !.out = Println(@, header)] ELSE L

\* "Output a new header if it changes"
PrintHeader(L, header) ==
  IF ~L.first /\ header # L.prevheader
    THEN [L EXCEPT !.out = Println(@, <<"\n">> \o header)]
  ELSE IF L.first /\ header # L.prevheader
    THEN [L EXCEPT !.out = Println(@, header)]
  ELSE L

\* Mutant: an entry with an empty message is not printed but becomes the
\* previous entry of the header comparison.
Iterate_emptyMovesKey(L, logentry, name) ==
  LET date == prettyDate(logentry.Date)
      msg == TrimSpace(logentry.Msg)
      header == Header(date, name)
      L1 == IF ((date # L.prevdate) \/ (name # L.prevname)) /\ Len(L.msgitems) > 0
            THEN [L EXCEPT !.out = PrintReversed(L.out, L.msgitems),
                           !.msgitems = <<>>,
                           !.first = FALSE]
            ELSE L
      L2 == IF msg = <<>> THEN L1
            ELSE IF ~L1.first /\ header # L1.prevheader
              THEN [L1 EXCEPT !.out = Println(@, <<"\n">> \o header)]
            ELSE IF L1.first /\ header # L1.prevheader
              THEN [L1 EXCEPT !.out = Println(@, header)]
            ELSE L1
  IN  [L2 EXCEPT !.msgitems = IF msg = <<>> THEN @ ELSE Append(@, FormatMsg(msg)),
                 !.prevdate = date,
                 !.prevname = name,
                 !.prevheader = header]

\* Mutant: the gathered messages are printed but not cleared.
Iterate_keepsFlushed(L, logentry, name) ==
  LET date == prettyDate(logentry.Date)
      msg == TrimSpace(logentry.Msg)
      header == Header(date, name)
  IN  IF SkipEntry(msg) THEN L
      ELSE
        LET L1 == IF ((date # L.prevdate) \/ (name # L.prevname)) /\ Len(L.msgitems) > 0
                  THEN [L EXCEPT !.out = PrintReversed(L.out, L.msgitems),
                                 !.first = FALSE]
                  ELSE L
            L2 == PrintHeader(L1, header)
        IN  [L2 EXCEPT !.msgitems = Append(@, FormatMsg(msg)),
                       !.prevdate = date,
                       !.prevname = name,
                       !.prevheader = header]

\* One iteration of the range loop, from the return of nickToNameAndEmail on.
\* L holds first, msgitems, prevdate, prevname, prevheader and the output.
Iterate(L, logentry, name) ==
  LET date == prettyDate(logentry.Date)
      msg == TrimSpace(logentry.Msg)
      header == Header(date, name)
  IN  IF SkipEntry(msg) THEN L
      ELSE
        LET L1 == IF ((date # L.prevdate) \/ (name # L.prevname)) /\ Len(L.msgitems) > 0
                  THEN [L EXCEPT !.out = PrintReversed(L.out, L.msgitems),
                                 !.msgitems = <<>>,
                                 !.first = FALSE]
                  ELSE L
            L2 == PrintHeader(L1, header)
        IN  [L2 EXCEPT !.msgitems = Append(@, FormatMsg(msg)),
                       !.prevdate = date,
                       !.prevname = name,
                       !.prevheader = header]

\* Mutant: the closing blank line is printed whatever was gathered.
FinalFlush_always(L) ==
  [L EXCEPT !.out = Println(PrintReversed(L.out, L.msgitems), <<>>)]

\* Mutant: the last group is printed without the closing blank line.
FinalFlush_noBlankLine(L) ==
  IF Len(L.msgitems) > 0
  THEN [L EXCEPT !.out = PrintReversed(L.out, L.msgitems)]
  ELSE L

\* "Output any final gathered messages"
FinalFlush(L) ==
  IF Len(L.msgitems) > 0
  THEN [L EXCEPT !.out = Println(PrintReversed(L.out, L.msgitems), <<>>)]
  ELSE L

\* outputLog's locals and the output, as Iterate takes them.
Locals ==
  [first |-> first, msgitems |-> msgitems, prevdate |-> prevdate,
   prevname |-> prevname, prevheader |-> prevheader, out |-> stdout]

SetLocals(L) ==
  /\ first' = L.first
  /\ msgitems' = L.msgitems
  /\ prevdate' = L.prevdate
  /\ prevname' = L.prevname
  /\ prevheader' = L.prevheader
  /\ stdout' = L.out

\* outputLog up to the loop: svnlog, err := getSvnLog(n).
OutputLogStart ==
  /\ pc = "outputLog"
  /\ \E cmd \in {CmdFailed} \cup
                {CmdOutput(h) : h \in Histories(IF n = -1 \/ n > MaxEntries
                                                THEN MaxEntries ELSE n)} :
       LET g == getSvnLog(cmd)
       IN  /\ svnFailed' = cmd.err
           /\ IF g.err THEN
                /\ stderr' = Append(stderr, "Could not find a subversion repository here")
                /\ pc' = "exit" /\ exitStatus' = 1
                /\ UNCHANGED <<stdout, svnlog>>
              ELSE
                /\ stdout' = stdout \o g.printed
                /\ svnlog' = g.log
                /\ pc' = "loop"
                /\ UNCHANGED <<stderr, exitStatus>>
  /\ UNCHANGED <<n, cmdline, idx>>
  /\ UNCHANGED outputLogLocals
  /\ UNCHANGED resolverVars
  /\ UNCHANGED pureVars

\* Mutant: the message is tested before the name is resolved, so an entry
\* with an empty message is passed over without a call.
LoopCall_skipsEmpty ==
  /\ pc = "loop"
  /\ idx <= Len(svnlog)
  /\ LET h == svnlog[idx].Author
     IN  IF SkipEntry(TrimSpace(svnlog[idx].Msg)) THEN
           /\ idx' = idx + 1
           /\ UNCHANGED <<pc, nick, callNo, callLog, netErr, pkgListed, result,
                          firstResult>>
         ELSE
           /\ nick' = h
           /\ callNo' = [callNo EXCEPT ![h] = @ + 1]
           /\ callLog' = <<>>
           /\ netErr' = FALSE
           /\ pkgListed' = FALSE
           /\ idx' = idx
           /\ IF Lookup(nickCache, h) THEN Returns(h, nickCache[h])
              ELSE /\ pc' = "TU"
                   /\ UNCHANGED <<result, firstResult>>
  /\ UNCHANGED <<exitStatus, stdout, stderr, n, cmdline, svnlog, svnFailed, nickCache,
                 ioCalls>>
  /\ UNCHANGED outputLogLocals
  /\ UNCHANGED pureVars

\* The loop takes the next entry and calls nickToNameAndEmail(logentry.Author),
\* which answers from the cache or goes to the first source.
LoopCall ==
  /\ pc = "loop"
  /\ idx <= Len(svnlog)
  /\ LET h == svnlog[idx].Author
     IN  /\ nick' = h
         /\ callNo' = [callNo EXCEPT ![h] = @ + 1]
         /\ callLog' = <<>>
         /\ netErr' = FALSE
         /\ pkgListed' = FALSE
         /\ IF Lookup(nickCache, h) THEN Returns(h, nickCache[h])
            ELSE /\ pc' = "TU"
                 /\ UNCHANGED <<result, firstResult>>
  /\ UNCHANGED <<exitStatus, stdout, stderr, n, cmdline, svnlog, idx, svnFailed, nickCache,
                 ioCalls>>
  /\ UNCHANGED outputLogLocals
  /\ UNCHANGED pureVars

\* The rest of the iteration, with name the value the call returned.
LoopBody ==
  /\ pc = "ret"
  /\ SetLocals(Iterate(Locals, svnlog[idx], result))
  /\ idx' = idx + 1
  /\ pc' = "loop"
  /\ callLog' = <<>>
  /\ netErr' = FALSE
  /\ pkgListed' = FALSE
  /\ UNCHANGED <<exitStatus, stderr, n, cmdline, svnlog, svnFailed, nickCache, nick, result,
                 callNo, firstResult, ioCalls>>
  /\ UNCHANGED pureVars

\* After the loop: the last group, and main returns.
LoopEnd ==
  /\ pc = "loop"
  /\ idx > Len(svnlog)
  /\ SetLocals(FinalFlush(Locals))
  /\ pc' = "exit"
  /\ exitStatus' = 0
  /\ UNCHANGED <<stderr, n, cmdline, svnlog, idx, svnFailed>>
  /\ UNCHANGED resolverVars
  /\ UNCHANGED pureVars

Next ==
  \/ Main
  \/ OutputLogStart
  \/ LoopCall
  \/ TryTU
  \/ TryDEV
  \/ TryPKG
  \/ TryFEL
  \/ LoopBody
  \/ LoopEnd

Spec == Init /\ [][Next]_vars

\* ------------------------------------------------------------ generateNick
\* Runes outside ASCII are written by code point.  The ones mapRunes names:
\* o-slash, o-umlaut, Cyrillic Er, eth, a-umlaut, A-acute, a-acute, e-acute.
OSlash == "U+00F8"
OUmlaut == "U+00F6"
CyrillicEr == "U+0420"
Eth == "U+00F0"
AUmlaut == "U+00E4"
AAcuteUpper == "U+00C1"
AAcute == "U+00E1"
EAcute == "U+00E9"
\* Upper-case o-slash and o-umlaut, which mapRunes does not name.
OSlashUpper == "U+00D8"
OUmlautUpper == "U+00D6"

\* The first byte of the UTF-8 encoding of a rune, read as a rune:
\* string(firstname[0]).
FirstByte(c) ==
  IF c \in {OSlash, OUmlaut, Eth, AUmlaut, AAcuteUpper, AAcute, EAcute, OSlashUpper,
            OUmlautUpper}
    THEN "U+00C3"
  ELSE IF c = CyrillicEr THEN "U+00D0"
  ELSE c

IsAsciiLetter(c) ==
  \E k \in 1..26 : Upper[k] = c \/ Lower[k] = c

\* mapRunes
mapRunes(letter) ==
  IF IsAsciiLetter(letter) THEN letter
  ELSE CASE letter \in {OSlash, OUmlaut} -> "o"
         [] letter \in {CyrillicEr, Eth} -> "r"
         [] letter \in {AUmlaut, AAcuteUpper, AAcute} -> "a"
         [] letter = EAcute -> "e"
         [] OTHER -> "_"

\* strings.Map(mapRunes, s)
MapRunes(s) == [i \in 1..Len(s) |-> mapRunes(s[i])]

\* The names the nick is made from: the part in parentheses when there is
\* one, the whole name otherwise, split at the spaces.
NickNames(name) ==
  IF Index(name, <<"(">>) # 0 /\ Index(name, <<")">>) # 0
  THEN LET a == Index(name, <<"(">>)
           b == LastIndex(name, <<")">>)
       IN  IF b < a + 1 THEN Panic("slice bounds out of range")
           ELSE Ok(Split(SubSeq(name, a + 1, b - 1), <<" ">>))
  ELSE Ok(Split(name, <<" ">>))

\* "Generates a nick from the name": the nick, or a run-time panic.
generateNick(name) ==
  IF Index(name, <<" ">>) = 0 THEN Ok(name)
  ELSE LET names == NickNames(name)
       IN  IF names.kind = "panic" THEN names
           ELSE LET firstname == names.val[1]
                    lastname == names.val[Len(names.val)]
                IN  IF firstname = <<>> THEN Panic("index out of range")
                    ELSE Ok(Replace(ToLower(MapRunes(<<FirstByte(firstname[1])>> \o lastname)),
                                    <<"_">>, <<>>, -1))

\* ------------------------------------------------- the functions on their own
\* Longest commit message, longest email text, most Person blocks on a page.
MaxMsgLen == 7
MaxEmailLen == 5
MaxBlocks == 2

\* All texts of at most k characters over an alphabet.
Texts(alphabet, k) == UNION {[1..m -> alphabet] : m \in 0..k}

\* Commit messages as svn stores them, and scraped email texts.
RawMessages == Texts({"a", "\n"}, MaxMsgLen)
RawEmails == Texts({"a", ".", "@"}, MaxEmailLen)

\* Full names of people.
Words == {<<"J","a","n","e">>, <<"J","a","n","e","y">>, <<"D","o","e">>}
AliasName(f, a, l) == f \o <<" ","(">> \o a \o <<")"," ">> \o l
FullNames ==
  Words
    \cup {f \o <<" ">> \o l : f \in Words, l \in Words}
    \cup {AliasName(f, a, l) : f \in Words, a \in Words, l \in Words}
    \cup {<<" ","D","o","e">>, <<")"," ","(">>, <<"J","a","n","e"," ","(",")">>, <<"J","a","n","e"," ","(","J"," ","R","o","e",")"," ","D","o","e">>,
          <<"B", "j", OSlash, "r", "n", " ", OSlashUpper, "l">>,
          <<AAcuteUpper, "l", " ", "R", EAcute>>,
          <<"J", "a", "n", "e", " ", OUmlautUpper, "b", "e", "r", "g">>,
          <<"I", "g", "o", "r", " ", CyrillicEr, "o", "y">>,
          <<"A", "l", " ", Eth, AUmlaut, OUmlaut, "-", "X">>}

\* The tags of a page of people, as strings.Split(body, "<") gives them.
TagPerson == <<"d","i","v"," ","i","t","e","m","t","y","p","e","=","\"","s","c","h","e","m","a",".","o","r","g","/","P","e","r","s","o","n","\"",">">>
TagName(name) == <<"m","e","t","a"," ","i","t","e","m","p","r","o","p","=","\"","n","a","m","e","\""," ","c","o","n","t","e","n","t","=","\"">> \o name \o <<"\"",">">>
TagAlias(alias) == <<"t","d",">">> \o alias
TagEmailLabel == <<"t","h",">","E","m","a","i","l",":">>
TagEndLabel == <<"/","t","h",">">>
TagEmail(email) == <<"t","d",">">> \o email
TagFiller == <<"b","r",">">>

\* The people a page may list.
People ==
  {[name |-> <<"A","l">>, alias |-> <<"a","l">>, email |-> <<"a","@","x">>],
   [name |-> <<"B","o">>, alias |-> <<"b","o">>, email |-> <<"b","@","y">>]}

\* How the block of a person may be laid out: name, alias, email; the alias
\* after the email; the email address starting with the alias; no email; no
\* name; the alias alone.
Shapes == {"standard", "aliasLast", "aliasInEmail", "noEmail", "noName", "aliasOnly"}

\* The name and the email a block shows, empty when it shows none.
BlockName(b) == IF b.shape \in {"noName", "aliasOnly"} THEN <<>> ELSE b.who.name
BlockEmail(b) ==
  CASE b.shape \in {"noEmail", "aliasOnly"} -> <<>>
    [] b.shape = "aliasInEmail" -> b.who.alias \o <<"@","x">>
    [] OTHER -> b.who.email

\* The tags of a block: the Person tag, gap other tags, then the fields.
BlockTags(b) ==
  LET name == <<TagName(b.who.name)>>
      alias == <<TagAlias(b.who.alias)>>
      email == <<TagEmailLabel, TagEndLabel, TagEmail(BlockEmail(b))>>
  IN  <<TagPerson>> \o [i \in 1..b.gap |-> TagFiller]
      \o CASE b.shape = "standard" -> name \o alias \o email
           [] b.shape = "aliasLast" -> name \o email \o alias
           [] b.shape = "aliasInEmail" -> name \o email
           [] b.shape = "noEmail" -> name \o alias
           [] b.shape = "noName" -> alias \o email
           [] b.shape = "aliasOnly" -> alias

Blocks(gaps) == [who : People, shape : Shapes, gap : gaps]

\* Pages: up to MaxBlocks blocks without other tags, or one block with up
\* to Window + 1 other tags after the Person tag.
PeopleDocs ==
  UNION {[1..k -> Blocks({0})] : k \in 0..MaxBlocks}
    \cup {<<b>> : b \in Blocks(1..(Window + 1))}

RECURSIVE DocTags(_)
DocTags(doc) ==
  IF doc = <<>> THEN <<>> ELSE BlockTags(Head(doc)) \o DocTags(Tail(doc))

RECURSIVE Render(_)
\* The body of the page: "<" before every tag.
Render(tags) ==
  IF tags = <<>> THEN <<>> ELSE <<"<">> \o Head(tags) \o Render(Tail(tags))

\* An option of the list box of the package page: the alias as value, the
\* name as text.
Options == [who : People, shape : {"option"}, gap : {0}]
OptionText(b) == OptionFor(b.who.alias) \o b.who.name \o <<"<","/","o","p","t","i","o","n",">">>

\* Package pages: a list box of up to MaxBlocks options.
ListBoxDocs == UNION {[1..k -> Options] : k \in 0..MaxBlocks}

RECURSIVE ListBoxBody(_)
ListBoxBody(doc) ==
  IF doc = <<>> THEN <<>> ELSE OptionText(Head(doc)) \o ListBoxBody(Tail(doc))

\* The calls: a function, its argument and, for a scan, the page it reads.
Calls ==
  {[fn |-> "FormatMsg", arg |-> m, doc |-> <<>>] : m \in RawMessages}
    \cup {[fn |-> "FixEmailPrimary", arg |-> e, doc |-> <<>>] : e \in RawEmails}
    \cup {[fn |-> "FixEmailByName", arg |-> e, doc |-> <<>>] : e \in RawEmails}
    \cup {[fn |-> "generateNick", arg |-> f, doc |-> <<>>] : f \in FullNames}
    \cup {[fn |-> "nickToNameAndEmailWithUrl", arg |-> p.alias, doc |-> d] :
            p \in People, d \in PeopleDocs}
    \cup {[fn |-> "nickToNameFromListBox", arg |-> p.alias, doc |-> d] :
            p \in People, d \in ListBoxDocs}

\* "continue": the entry is skipped.
Skipped == [kind |-> "skip", val |-> <<>>]

PureInit ==
  /\ pc = "call"
  /\ Idle
  /\ fnCall \in Calls
  /\ fnRet = NoRet

\* The function returns r.
PureReturn(r) ==
  /\ fnRet' = r
  /\ pc' = "returned"
  /\ UNCHANGED <<fnCall, exitStatus, stdout, stderr, n, cmdline, svnlog, idx, svnFailed>>
  /\ UNCHANGED outputLogLocals
  /\ UNCHANGED resolverVars

\* outputLog's treatment of one message: trim, skip or format.
CallFormatMsg ==
  /\ pc = "call"
  /\ fnCall.fn = "FormatMsg"
  /\ LET msg == TrimSpace(fnCall.arg)
     IN  PureReturn(IF SkipEntry(msg) THEN Skipped ELSE Ok(FormatMsg(msg)))

CallFixEmailPrimary ==
  /\ pc = "call"
  /\ fnCall.fn = "FixEmailPrimary"
  /\ PureReturn(Ok(FixEmailPrimary(fnCall.arg)))

CallFixEmailByName ==
  /\ pc = "call"
  /\ fnCall.fn = "FixEmailByName"
  /\ PureReturn(Ok(FixEmailByName(fnCall.arg)))

CallGenerateNick ==
  /\ pc = "call"
  /\ fnCall.fn = "generateNick"
  /\ PureReturn(generateNick(fnCall.arg))

CallScan ==
  /\ pc = "call"
  /\ fnCall.fn = "nickToNameAndEmailWithUrl"
  /\ PureReturn(nickToNameAndEmailWithUrl(fnCall.arg, Page(Render(DocTags(fnCall.doc)))))

CallListBox ==
  /\ pc = "call"
  /\ fnCall.fn = "nickToNameFromListBox"
  /\ PureReturn(nickToNameFromListBox(fnCall.arg, Page(ListBoxBody(fnCall.doc))))

PureNext ==
  \/ CallFormatMsg
  \/ CallFixEmailPrimary
  \/ CallFixEmailByName
  \/ CallGenerateNick
  \/ CallScan
  \/ CallListBox

PureSpec == PureInit /\ [][PureNext]_vars

\* ------------------------------------------------------------------ claims
Sources == {"TU", "DEV", "PKG", "FEL"}
SourceOrder == <<"TU", "DEV", "PKG", "FEL">>

\* outputLog ran to its end and main returned.
Done == pc = "exit" /\ exitStatus = 0 /\ n # 0

\* The process died of a run-time panic.
Panicked == pc = "exit" /\ exitStatus = 2

\* Every message trimmed, every message formatted, every date made pretty.
Trimmed == [m \in Messages |-> TrimSpace(m)]
Formatted == [m \in Messages |-> FormatMsg(TrimSpace(m))]
Pretty == [t \in Timestamps |-> prettyDate(t)]

\* The entry's message is empty once trimmed.
EmptyMsg(logentry) == Trimmed[logentry.Msg] = <<>>

\* C1: a second or later call of nickToNameAndEmail for a handle returns the
\* value the first call for that handle returned, and fetches nothing.
C1_LaterCallsAnswerFromCache ==
  (pc = "ret" /\ callNo[nick] >= 2)
    => (result = firstResult[nick] /\ callLog = <<>> /\ ioCalls[nick] <= 1)

C1_Witness ==
  /\ pc = "ret"
  /\ callNo[nick] >= 2
  /\ callLog = <<>>
  /\ result = firstResult[nick]
  /\ result # nick

\* C2: every return of nickToNameAndEmail leaves nickCache[nick] equal to the
\* returned value; an entry of the cache is never changed or removed; and for
\* each handle at most one call fetches anything.
C2_EveryResultCachedForGood ==
  [][/\ (pc' = "ret" => (nick' \in DOMAIN nickCache' /\ nickCache'[nick'] = result'))
     /\ \A h \in DOMAIN nickCache : h \in DOMAIN nickCache' /\ nickCache'[h] = nickCache[h]
     /\ \A h \in Handles : ioCalls'[h] <= 1]_vars

C2_Witness ==
  /\ pc = "ret"
  /\ callNo[nick] >= 2
  /\ nickCache[nick] = nick
  /\ ioCalls[nick] = 1
  /\ Cardinality(DOMAIN nickCache) = 2

\* The call that is returning asked all four sources, and none found the nick.
AllSourcesMissed ==
  /\ pc = "ret"
  /\ Len(callLog) = 4
  /\ \A i \in 1..4 : callLog[i] = Fetch(SourceOrder[i], "nick", "err")

\* C3: when none of the four sources finds the handle, nickToNameAndEmail
\* returns the handle unchanged and caches it under itself.
C3_ExhaustedReturnsHandle ==
  AllSourcesMissed
    => (result = nick /\ nick \in DOMAIN nickCache /\ nickCache[nick] = nick)

C3_Witness == AllSourcesMissed /\ result = nick /\ nickCache[nick] = nick

\* The scans by handle of the current call, in the order made.
HandleScans == SelectSeq(callLog, LAMBDA f : f.by = "nick")

\* C4: on a cache miss the sources are asked by handle in the order trusted
\* users, developers, packages, fellows, each at most once, and no source is
\* asked after one has found the handle.
C4_SourcesInOrderUntilFirstSuccess ==
  LET hs == HandleScans
  IN  /\ Len(hs) <= 4
      /\ \A i \in 1..Len(hs) :
           /\ hs[i].src = SourceOrder[i]
           /\ (i < Len(hs) => hs[i].res = "err")
      /\ (pc \in Sources => (Len(hs) < 4 /\ pc = SourceOrder[Len(hs) + 1]))
      /\ (pc = "ret" /\ callNo[nick] = 1 => hs # <<>>)

C4_Witness ==
  /\ pc = "ret"
  /\ callLog = <<Fetch("TU", "nick", "err"), Fetch("DEV", "nick", "ok")>>

\* C5: a fetch that fails is a miss, and never ends the process.
C5_FailedFetchIsAMiss == netErr => ~Panicked

\* C6: a document of a people page that is not laid out as expected is a
\* miss, and never ends the process.
C6_UnexpectedDocumentIsAMiss ==
  (/\ callLog # <<>>
   /\ ~netErr
   /\ callLog[Len(callLog)].by = "nick"
   /\ callLog[Len(callLog)].src \in {"TU", "DEV", "FEL"})
    => ~Panicked

\* C7: when the svn command fails the process has exited with status 1 and a
\* diagnostic on standard error, with nothing on standard output.
C7_HistoryFailureAborts ==
  svnFailed => (pc = "exit" /\ exitStatus = 1 /\ stderr # <<>> /\ stdout = <<>>)

\* The entries that are not skipped, with the date, the identity and the
\* formatted message of each.
Kept ==
  LET kept == SelectSeq(svnlog, LAMBDA e : ~EmptyMsg(e))
  IN  [i \in 1..Len(kept) |->
         [date |-> Pretty[kept[i].Date],
          name |-> nickCache[kept[i].Author],
          msg |-> Formatted[kept[i].Msg]]]

SameKey(a, b) == a.date = b.date /\ a.name = b.name

\* Where the maximal runs of entries with one (date, identity) start.
RunStarts(K) == {i \in 1..Len(K) : i = 1 \/ ~SameKey(K[i], K[i - 1])}

\* The last entry of the run that starts at b.
RunEnd(K, b) ==
  CHOOSE j \in b..Len(K) :
    /\ \A m \in (b + 1)..j : m \notin RunStarts(K)
    /\ (j = Len(K) \/ (j + 1) \in RunStarts(K))

RECURSIVE LinesDownTo(_, _, _)
\* The lines of the messages of K from entry j down to entry b.
LinesDownTo(K, j, b) ==
  IF j < b THEN <<>>
  ELSE Split(K[j].msg, <<"\n">>) \o LinesDownTo(K, j - 1, b)

RECURSIVE RunLines(_, _)
\* For each run from b on: its header, then its messages, last entry first.
RunLines(K, b) ==
  IF b > Len(K) THEN <<>>
  ELSE <<Header(K[b].date, K[b].name)>>
       \o LinesDownTo(K, RunEnd(K, b), b)
       \o RunLines(K, RunEnd(K, b) + 1)

\* The lines of the output that are not empty.
OutputLines == SelectSeq(Split(stdout, <<"\n">>), LAMBDA l : l # <<>>)

\* C8: the output is, run by run in input order, one header line and then
\* the messages of the run in reverse input order, each message once.
C8_OneHeaderPerRunMessagesReversed ==
  (Done /\ ~svnFailed) => OutputLines = RunLines(Kept, 1)

C8_Witness ==
  /\ Done
  /\ Len(Kept) = 3
  /\ SameKey(Kept[1], Kept[2])
  /\ ~SameKey(Kept[2], Kept[3])
  /\ Kept[1].msg # Kept[2].msg
  /\ OutputLines =
       <<Header(Kept[1].date, Kept[1].name), Kept[2].msg, Kept[1].msg,
         Header(Kept[3].date, Kept[3].name), Kept[3].msg>>

\* outputLog's locals before the loop.
StartLocals ==
  [first |-> TRUE, msgitems |-> <<>>, prevdate |-> <<>>, prevname |-> <<>>,
   prevheader |-> <<>>, out |-> <<>>]

RECURSIVE RunLoop(_, _, _)
\* The loop and the final flush over entries, each author resolved by cache.
RunLoop(L, entries, cache) ==
  IF entries = <<>> THEN FinalFlush(L)
  ELSE RunLoop(Iterate(L, Head(entries), cache[Head(entries).Author]),
               Tail(entries), cache)

\* C9: the output is byte for byte the output for the history with the
\* entries of empty message removed.
C9_EmptyEntriesChangeNothing ==
  (Done /\ ~svnFailed)
    => stdout = RunLoop(StartLocals,
                        SelectSeq(svnlog, LAMBDA e : ~EmptyMsg(e)),
                        nickCache).out

C9_Witness ==
  /\ Done
  /\ Len(svnlog) = 3
  /\ ~EmptyMsg(svnlog[1]) /\ EmptyMsg(svnlog[2]) /\ ~EmptyMsg(svnlog[3])
  /\ prettyDate(svnlog[1].Date) = prettyDate(svnlog[3].Date)
  /\ nickCache[svnlog[1].Author] = nickCache[svnlog[3].Author]
  /\ \/ prettyDate(svnlog[2].Date) # prettyDate(svnlog[1].Date)
     \/ nickCache[svnlog[2].Author] # nickCache[svnlog[1].Author]
  /\ Len(OutputLines) = 3

\* C10: a history of no entries, or of entries with empty messages only,
\* puts nothing on standard output.
C10_NothingFromEmptyHistory ==
  (n # 0 /\ ~svnFailed /\ \A i \in 1..Len(svnlog) : EmptyMsg(svnlog[i]))
    => stdout = <<>>

C10_Witness ==
  /\ Done
  /\ ~svnFailed
  /\ Len(svnlog) >= 2
  /\ \A i \in 1..Len(svnlog) : EmptyMsg(svnlog[i])
  /\ stdout = <<>>

\* The last entry before position k that is not skipped, 0 when none is.
PrevKept(k) ==
  IF \E j \in 1..(k - 1) : ~EmptyMsg(svnlog[j])
  THEN CHOOSE j \in 1..(k - 1) :
         /\ ~EmptyMsg(svnlog[j])
         /\ \A m \in (j + 1)..(k - 1) : EmptyMsg(svnlog[m])
  ELSE 0

\* The lines of text t, every one ended by a newline.
LinesOf(t) ==
  LET parts == Split(t, <<"\n">>) IN SubSeq(parts, 1, Len(parts) - 1)

\* A line of a message: the bullet line or an indented continuation line.
IsMsgLine(l) == l # <<>> /\ l[1] = " "

LastRunStart(K) == CHOOSE b \in RunStarts(K) : \A c \in RunStarts(K) : c <= b

\* C12: when the run is over, the output ends with the header of the last
\* group, its messages in reverse order and exactly one blank line if any
\* entry was not skipped, and is empty otherwise.
C12_LastGroupThenOneBlankLine ==
  (Done /\ ~svnFailed) =>
    LET K == Kept
        L == Split(stdout, <<"\n">>)
        k == Len(L)
    IN  IF K = <<>> THEN stdout = <<>>
        ELSE LET b == LastRunStart(K)
                 tail == LinesDownTo(K, Len(K), b)
             IN  /\ k >= Len(tail) + 3
                 /\ L[k] = <<>>
                 /\ L[k - 1] = <<>>
                 /\ SubSeq(L, k - 1 - Len(tail), k - 2) = tail
                 /\ \A m \in 1..Len(tail) : tail[m] # <<>>
                 /\ L[k - 2 - Len(tail)] = Header(K[b].date, K[b].name)

C12_Witness ==
  /\ Done
  /\ ~svnFailed
  /\ Len(Kept) = 3
  /\ ~SameKey(Kept[1], Kept[2])
  /\ SameKey(Kept[2], Kept[3])
  /\ Kept[2].msg # Kept[3].msg
  /\ LET L == LinesOf(stdout)
     IN  /\ Len(L) = 7
         /\ L[5] = Kept[3].msg
         /\ L[6] = Kept[2].msg
         /\ L[7] = <<>>

\* C13: "archlog 2" on two entries with different dates prints header,
\* message, header, message, with no blank line before the second header.
C13_ReadmeExampleOutput ==
  (/\ Done
   /\ ~svnFailed
   /\ n = 2
   /\ Len(Kept) = 2
   /\ Kept[1].date # Kept[2].date)
    => LET L == LinesOf(stdout)
       IN  /\ Len(L) >= 4
           /\ SubSeq(L, 1, 4) =
                <<Header(Kept[1].date, Kept[1].name), Kept[1].msg,
                  Header(Kept[2].date, Kept[2].name), Kept[2].msg>>

\* The text is a decimal integer greater than zero.
PositiveInt(s) ==
  LET digits == IF s # <<>> /\ s[1] = "+" THEN Tail(s) ELSE s
  IN  /\ digits # <<>>
      /\ \A i \in 1..Len(digits) : digits[i] \in {Digits[d] : d \in 1..10}
      /\ \E i \in 1..Len(digits) : digits[i] # "0"

\* main was started without flags and with one argument that is not an
\* integer greater than zero.
BadCount ==
  /\ pc # "main"
  /\ ~cmdline.help
  /\ ~cmdline.version
  /\ Len(cmdline.args) = 1
  /\ ~PositiveInt(cmdline.args[1])

Returned(fn) == pc = "returned" /\ fnCall.fn = fn

\* The number of blank lines of a text: newlines that follow a newline.
BlankLines(t) == Cardinality({i \in 1..(Len(t) - 1) : t[i] = "\n" /\ t[i + 1] = "\n"})

\* The bullet before the message and the indent after every newline.
Indented(msg) == Replace(leadStar \o msg, <<"\n">>, contIndent, -1)

\* C14: a message with exactly one blank line is formatted without it; a
\* message with two or more blank lines, next to each other or not, keeps
\* all of them and is only indented.
C14_OnlyASingleBlankLineIsRemoved ==
  (Returned("FormatMsg") /\ fnRet.kind = "ok") =>
    LET msg == TrimSpace(fnCall.arg)
    IN  fnRet.val = IF BlankLines(msg) = 1
                    THEN Indented(Replace(msg, <<"\n","\n">>, <<"\n">>, 1))
                    ELSE Indented(msg)

\* The number of dots of a text.
Dots(t) == Cardinality({i \in 1..Len(t) : t[i] = "."})

\* C15: in the primary scan and in the scan by name alike, an email without
\* "@" and with two or more "." gets its first "." replaced by "@"; any
\* other email is left as it is.
C15_EmailFixNeedsTwoDots ==
  (Returned("FixEmailPrimary") \/ Returned("FixEmailByName")) =>
    LET email == fnCall.arg
    IN  fnRet.val = IF (\A i \in 1..Len(email) : email[i] # "@") /\ Dots(email) >= 2
                    THEN Replace(email, <<".">>, <<"@">>, 1)
                    ELSE email

\* C16: for a name "F (A) L" the nick is the first letter of A and then L,
\* in lower case: "Jane (Janey) Doe" gives "jdoe", as "Janey Doe" does.
C16_AliasNameNick ==
  Returned("generateNick") =>
    /\ \A f \in Words, a \in Words, l \in Words :
         fnCall.arg = AliasName(f, a, l) => fnRet = Ok(ToLower(<<a[1]>> \o l))
    /\ fnCall.arg \in {<<"J","a","n","e"," ","(","J","a","n","e","y",")"," ","D","o","e">>, <<"J","a","n","e","y"," ","D","o","e">>} => fnRet = Ok(<<"j","d","o","e">>)

\* The call of nickToNameAndEmail is returning what the primary scan of a
\* people page found.
PrimaryScanSucceeded ==
  /\ pc = "ret"
  /\ callLog # <<>>
  /\ callLog[Len(callLog)].by = "nick"
  /\ callLog[Len(callLog)].src \in {"TU", "DEV", "FEL"}
  /\ callLog[Len(callLog)].res = "ok"

\* C18: when the primary scan succeeds its result is "Name <email>" with a
\* name and an email that are not empty.
C18_SuccessHasNameAndEmail ==
  PrimaryScanSucceeded =>
    LET i == Index(result, <<" ","<">>)
    IN  /\ i > 1
        /\ Len(result) > i + 2
        /\ result[Len(result)] = ">"

\* The block shows the handle in one of its tags.
BlockMentions(b, handle) == \E i \in 1..Len(BlockTags(b)) : Contains(BlockTags(b)[i], handle)

\* C19: when the primary scan succeeds for a handle, the name and the email
\* of the result are those of a block that shows the handle, never those of
\* another block.
C19_ResultFromTheHandlesBlock ==
  (Returned("nickToNameAndEmailWithUrl") /\ fnRet.kind = "ok") =>
    \E i \in 1..Len(fnCall.doc) :
      LET b == fnCall.doc[i]
      IN  /\ BlockMentions(b, fnCall.arg)
          /\ \E name \in {BlockName(b), <<>>}, email \in {BlockEmail(b), <<>>} :
               fnRet.val = NameEmail(name, email)

\* C20: the 30 tags after the Person tag are examined: on a page of one
\* block the handle is found when its tag is among them, and only then.
C20_WindowOfThirtyFollowingTags ==
  (/\ Returned("nickToNameAndEmailWithUrl")
   /\ Len(fnCall.doc) = 1
   /\ BlockMentions(fnCall.doc[1], fnCall.arg)) =>
    LET tags == BlockTags(fnCall.doc[1])
        a == CHOOSE i \in 1..Len(tags) :
               /\ Contains(tags[i], fnCall.arg)
               /\ \A k \in 1..(i - 1) : ~Contains(tags[k], fnCall.arg)
    IN  (fnRet.kind = "ok") <=> (a - 1 <= Window)

\* The lookups by full name of the current call, in the order made.
ByNameFetches == SelectSeq(callLog, LAMBDA f : f.by = "name")

\* C21: when the package page lists the handle, the call does not go on to
\* the fellows page: the email is looked up by full name on the trusted
\* user page, and on the developer page only if that failed; the result is
\* "Name <email>" if a lookup succeeded and the bare name otherwise, and it
\* is cached.
C21_ListBoxMatchThenByName ==
  pkgListed =>
    LET names == ByNameFetches
    IN  /\ pc = "ret"
        /\ \A i \in 1..Len(callLog) : callLog[i].src # "FEL"
        /\ Len(names) \in {1, 2}
        /\ names[1].src = "TU"
        /\ (Len(names) = 2 <=> names[1].res # "ok")
        /\ (Len(names) = 2 => names[2].src = "DEV")
        /\ ((\E i \in 1..Len(names) : names[i].res = "ok") <=> Contains(result, <<" ","<">>))
        /\ nick \in DOMAIN nickCache
        /\ nickCache[nick] = result

\* C22: the scan of the list box gives, for a handle that is the value of
\* an option, the name of that option; for a handle that is the value of no
\* option it fails, out of tokens.
C22_ListBoxFindsListedHandle ==
  Returned("nickToNameFromListBox") =>
    LET listed == {i \in 1..Len(fnCall.doc) : fnCall.doc[i].who.alias = fnCall.arg}
    IN  IF listed = {} THEN fnRet = Err(tokerror)
        ELSE fnRet = Ok(fnCall.doc[CHOOSE i \in listed : \A k \in listed : i <= k].who.name)

\* Cyrillic small er, the lower-case form of the er mapRunes names.
CyrillicErLower == "U+0440"

\* The lower-case form of a character (unicode.ToLower).
LowerRune(c) ==
  CASE c = OSlashUpper -> OSlash
    [] c = OUmlautUpper -> OUmlaut
    [] c = AAcuteUpper -> AAcute
    [] c = CyrillicEr -> CyrillicErLower
    [] OTHER -> ToLower(<<c>>)[1]

\* The reference derivation: first character of the first token and the
\* whole last token, lower-cased, then mapped, then without underscores.
ReferenceNick(name) ==
  LET tokens == Split(name, <<" ">>)
      joined == <<tokens[1][1]>> \o tokens[Len(tokens)]
      lowered == [i \in 1..Len(joined) |-> LowerRune(joined[i])]
  IN  Replace(MapRunes(lowered), <<"_">>, <<>>, -1)

\* C23: for a name with a space and without parentheses, whose first token
\* is not empty, generateNick gives the reference derivation; an upper-case
\* accented letter counts as its lower-case form.
C23_NickIsLoweredThenMapped ==
  (/\ Returned("generateNick")
   /\ Contains(fnCall.arg, <<" ">>)
   /\ ~Contains(fnCall.arg, <<"(">>)
   /\ ~Contains(fnCall.arg, <<")">>)
   /\ Split(fnCall.arg, <<" ">>)[1] # <<>>)
    => fnRet = Ok(ReferenceNick(fnCall.arg))

\* The newlines of a text.
Newlines(t) == {i \in 1..Len(t) : t[i] = "\n"}

\* The width of the continuation indent: the spaces after the newline.
IndentWidth == Len(contIndent) - 1

\* Every newline of a formatted message is followed by the indent.
NewlinesIndented ==
  (Returned("FormatMsg") /\ fnRet.kind = "ok") =>
    \A i \in Newlines(fnRet.val) : MatchAt(fnRet.val, contIndent, i)

\* C24 as stated: every newline of a formatted message is followed by the
\* continuation indent, and the indent is wider than the bullet put before
\* the message.
C24_IndentWiderThanBullet ==
  /\ NewlinesIndented
  /\ (Returned("FormatMsg") /\ fnRet.kind = "ok") => IndentWidth > Len(leadStar)

\* C24 amended: every newline of a formatted message is followed by the
\* continuation indent, and the indent is exactly as wide as the bullet put
\* before the message, so that the lines of a message start in one column.
C24_IndentAsWideAsBullet ==
  /\ NewlinesIndented
  /\ (Returned("FormatMsg") /\ fnRet.kind = "ok") => IndentWidth = Len(leadStar)

\* A message with two blank lines, so three newlines or more, has been
\* formatted.
C24_Witness ==
  /\ Returned("FormatMsg")
  /\ fnRet.kind = "ok"
  /\ Cardinality(Newlines(fnRet.val)) >= 3
  /\ BlankLines(TrimSpace(fnCall.arg)) = 2

\* The entries nickToNameAndEmail has been called for: all before the one
\* the loop is at, and that one too while the call runs or has returned.
Called ==
  IF pc = "loop" THEN idx - 1
  ELSE IF pc = "exit" /\ exitStatus = 0 THEN Len(svnlog)
  ELSE idx

\* The authors of the first k entries, and the entries among them of one.
Authors(k) == {svnlog[i].Author : i \in 1..k}
EntriesBy(h, k) == {i \in 1..k : svnlog[i].Author = h}

\* The entries whose message is not empty.
KeptEntries(k) == {i \in 1..k : ~EmptyMsg(svnlog[i])}

\* C25: nickToNameAndEmail is called once for every entry, in the order of
\* the log, whether the entry is then skipped or not; after a run the keys
\* of the cache are the authors of all entries, and every author, also one
\* with none but empty messages, has had one call that went to the sources.
C25_ResolverCalledForEveryEntry ==
  /\ pc \in {"loop", "TU", "DEV", "PKG", "FEL", "ret"} =>
       /\ \A h \in Handles : callNo[h] = Cardinality(EntriesBy(h, Called))
       /\ pc # "loop" => nick = svnlog[idx].Author
  /\ (pc = "exit" /\ exitStatus = 0) =>
       /\ \A h \in Handles : callNo[h] = Cardinality(EntriesBy(h, Len(svnlog)))
       /\ DOMAIN nickCache = Authors(Len(svnlog))
       /\ \A h \in Authors(Len(svnlog)) : ioCalls[h] = 1

\* A run has ended in which one author has only empty messages and another
\* author a message that is printed.
C25_Witness ==
  /\ pc = "exit"
  /\ exitStatus = 0
  /\ \E h \in Authors(Len(svnlog)) :
       /\ EntriesBy(h, Len(svnlog)) \cap KeptEntries(Len(svnlog)) = {}
       /\ ioCalls[h] = 1
       /\ h \in DOMAIN nickCache
  /\ KeptEntries(Len(svnlog)) # {}

\* The entries before position k that are not skipped, with the date, the
\* identity and the formatted message of each.
KeptBefore(k) ==
  LET kept == SelectSeq(SubSeq(svnlog, 1, k - 1), LAMBDA e : ~EmptyMsg(e))
  IN  [i \in 1..Len(kept) |->
         [date |-> Pretty[kept[i].Date],
          name |-> nickCache[kept[i].Author],
          msg |-> Formatted[kept[i].Msg]]]

RECURSIVE MessagesDownTo(_, _, _)
\* The messages of K from entry j down to entry b, a line each.
MessagesDownTo(K, j, b) ==
  IF j < b THEN <<>>
  ELSE K[j].msg \o <<"\n">> \o MessagesDownTo(K, j - 1, b)

RECURSIVE PrintedUpTo(_, _, _)
\* What has been printed when the run that starts at c is being gathered:
\* for every run from b on before it the header and the messages, last
\* entry first, and the header of the run at c; a blank line before every
\* header but the first.
PrintedUpTo(K, b, c) ==
  (IF b = 1 THEN <<>> ELSE <<"\n">>) \o Header(K[b].date, K[b].name) \o <<"\n">>
    \o (IF b = c THEN <<>>
        ELSE MessagesDownTo(K, RunEnd(K, b), b) \o PrintedUpTo(K, RunEnd(K, b) + 1, c))

\* C26: between two iterations, the gathered messages are those of the
\* entries of the last run of one (date, identity), which is (prevdate,
\* prevname), in the order read; the header of that run is the last thing
\* printed, once, after the flush of the run before it, and every run so far
\* has one header; messages are gathered exactly when some entry read so far
\* was not skipped.
C26_LoopInvariant ==
  pc = "loop" =>
    LET K == KeptBefore(idx)
    IN  IF K = <<>> THEN msgitems = <<>> /\ first /\ prevheader = <<>>
        ELSE
          LET b == LastRunStart(K)
              hdr == Header(prevdate, prevname)
          IN  /\ msgitems # <<>>
              /\ msgitems = [i \in 1..(Len(K) - b + 1) |-> K[b + i - 1].msg]
              /\ \A i \in b..Len(K) : K[i].date = prevdate /\ K[i].name = prevname
              /\ prevheader = hdr
              /\ stdout = PrintedUpTo(K, 1, b)
              /\ MatchAt(stdout, hdr \o <<"\n">>, Len(stdout) - Len(hdr))

\* Three entries have been read, none skipped; the first has a key of its
\* own and has been printed, the other two are gathered under one header.
C26_Witness ==
  /\ pc = "loop"
  /\ idx = 4
  /\ Len(KeptBefore(idx)) = 3
  /\ LastRunStart(KeptBefore(idx)) = 2
  /\ Len(msgitems) = 2
  /\ msgitems[1] # msgitems[2]
  /\ Len(LinesOf(stdout)) = 4
  /\ LinesOf(stdout)[4] = Header(prevdate, prevname)

\* C27: a scan of a document that was returned ends with a result or with
\* an error, never with the end of the process, and one call of
\* nickToNameAndEmail makes five fetches at most.
C27_ScansEndAndFiveFetchesAtMost ==
  /\ Len(callLog) <= 5
  /\ (callLog # <<>> /\ ~netErr) =>
       /\ callLog[Len(callLog)].res \in {"ok", "err"}
       /\ ~Panicked
====
